---- MODULE Spec2Model ----
(***************************************************************************)
(* Model of QwenIELTSEvaluator (src/QwenIELTSEvaluator.py): the request    *)
(* builder _build_messages and the streaming aggregation loop of           *)
(* evaluate_audio.  Python strings are sequences of one-character strings. *)
(***************************************************************************)
EXTENDS Naturals, Sequences, FiniteSets, TLC

(* ------------------------------ bounds ------------------------------- *)
MaxUrlLen == 4      \* longest locator drawn for _build_messages
MaxFrags == 3       \* longest fragment stream the endpoint delivers
MaxRerunFrags == 2  \* longest stream that is aggregated a second time

(* --------------------------- characters ------------------------------ *)
Lower == {"a"}
Upper == {"Z"}
Digit == {"7"}
\* the class [a-zA-Z0-9] of the pattern
AlnumClass == Lower \cup Upper \cup Digit
NL == "\n"
UrlChars == AlnumClass \cup {".", NL}
\* what str.strip() removes
Whitespace == {" ", NL}

AllLocators == UNION {[1..n -> UrlChars] : n \in 0..MaxUrlLen}
\* one locator with a mixed-case extension, one without extension
Locators == {<<"a", ".", "Z", "a">>, <<"a", "Z">>}

(* ------------------- re.search(r'\.([a-zA-Z0-9]+)$') ------------------ *)
\* length of the greedy run of [a-zA-Z0-9] starting at position i
RECURSIVE RunLen(_, _)
RunLen(s, i) ==
    IF i <= Len(s) /\ s[i] \in AlnumClass THEN 1 + RunLen(s, i + 1) ELSE 0

\* '$' matches at the end of the string and just before a final newline
AtDollar(s, j) ==
    j = Len(s) + 1 \/ (j = Len(s) /\ s[j] = NL)

\* the pattern matches with its '.' at position i
MatchAt(s, i) ==
    /\ s[i] = "."
    /\ RunLen(s, i + 1) >= 1
    /\ AtDollar(s, i + 1 + RunLen(s, i + 1))

\* a faulty variant: the text after the first '.' whatever follows it
SearchFirstDot(s) ==
    LET hits == {i \in 1..Len(s) : s[i] = "." /\ RunLen(s, i + 1) >= 1}
    IN  IF hits = {} THEN <<>>
        ELSE LET i == CHOOSE k \in hits : \A m \in hits : k <= m
             IN  <<SubSeq(s, i + 1, i + RunLen(s, i + 1))>>

\* re.search scans left to right; the result is <<>> (None) or <<group(1)>>
Search(s) ==
    LET hits == {i \in 1..Len(s) : MatchAt(s, i)}
    IN  IF hits = {} THEN <<>>
        ELSE LET i == CHOOSE k \in hits : \A m \in hits : k <= m
             IN  <<SubSeq(s, i + 1, i + RunLen(s, i + 1))>>

(* --------------------------- str.strip() ------------------------------ *)
Strip(s) ==
    LET keep == {i \in 1..Len(s) : s[i] \notin Whitespace}
    IN  IF keep = {} THEN <<>>
        ELSE LET lo == CHOOSE k \in keep : \A m \in keep : k <= m
                 hi == CHOOSE k \in keep : \A m \in keep : k >= m
             IN  SubSeq(s, lo, hi)

(* ------------------- values carried by a chunk ------------------------ *)
\* a Python value as the loop sees it: None, str, list, dict or int
NoneV == [t |-> "none", s |-> <<>>, items |-> <<>>, n |-> 0]
Str(s) == [t |-> "str", s |-> s, items |-> <<>>, n |-> 0]
List(items) == [t |-> "list", s |-> <<>>, items |-> items, n |-> 0]
IntV(n) == [t |-> "int", s |-> <<>>, items |-> <<>>, n |-> n]

\* the value under a key of an item: a str, or None
StrVal(s) == [isStr |-> TRUE, s |-> s]
NoneVal == [isStr |-> FALSE, s |-> <<>>]

\* an element a content value yields when iterated
StrItem(s) == [k |-> "str", s |-> s, text |-> <<>>, data |-> <<>>]
DictItem(text, data) == [k |-> "dict", s |-> <<>>, text |-> text, data |-> data]
IntItem == [k |-> "int", s |-> <<>>, text |-> <<>>, data |-> <<>>]

\* a dict as content: iterating it yields its keys
DictV(keys) ==
    [t |-> "dict", s |-> <<>>, items |-> [i \in 1..Len(keys) |-> StrItem(keys[i])],
     n |-> 0]

\* chunk.choices[0].delta: None, or an object with optional attributes
NoDelta == [isNone |-> TRUE, content |-> <<>>, output_text |-> <<>>]
Delta(content, output_text) ==
    [isNone |-> FALSE, content |-> content, output_text |-> output_text]

\* a chunk: choices is empty or holds one choice; usage is an optional attribute
NoChoice(hasUsage, usage) ==
    [choices |-> <<>>, hasUsage |-> hasUsage, usage |-> usage]
Choice(delta, hasUsage, usage) ==
    [choices |-> <<[delta |-> delta]>>, hasUsage |-> hasUsage, usage |-> usage]

\* the chunks the endpoint may deliver
Fragments == <<
    NoChoice(FALSE, <<>>),
    NoChoice(TRUE, <<42>>),
    NoChoice(TRUE, <<>>),
    NoChoice(TRUE, <<7>>),
    Choice(Delta(<<Str(<<"a">>)>>, <<>>), TRUE, <<>>),
    Choice(Delta(<<Str(<<"b">>)>>, <<>>), TRUE, <<>>),
    Choice(Delta(<<Str(<<"c", " ">>)>>, <<>>), TRUE, <<>>),
    Choice(Delta(<<Str(<<>>)>>, <<>>), TRUE, <<>>),
    Choice(Delta(<<List(<<DictItem(<<StrVal(<<"h", "e">>)>>, <<>>),
                          DictItem(<<StrVal(<<"l", "l", "o">>)>>, <<>>)>>)>>,
                 <<>>), TRUE, <<>>),
    Choice(Delta(<<List(<<DictItem(<<StrVal(<<"t">>)>>, <<StrVal(<<"d">>)>>),
                          DictItem(<<>>, <<StrVal(<<"d">>)>>),
                          StrItem(<<"s">>),
                          DictItem(<<>>, <<>>),
                          IntItem>>)>>,
                 <<>>), TRUE, <<>>),
    Choice(Delta(<<List(<<>>)>>, <<Str(<<"o">>)>>), TRUE, <<>>),
    Choice(Delta(<<NoneV>>, <<Str(<<"o">>)>>), TRUE, <<>>),
    Choice(Delta(<<Str(<<"a">>)>>, <<Str(<<"o">>)>>), TRUE, <<>>),
    Choice(Delta(<<NoneV>>, <<>>), TRUE, <<>>),
    Choice(NoDelta, TRUE, <<>>),
    Choice(Delta(<<IntV(42)>>, <<>>), TRUE, <<>>),
    Choice(Delta(<<DictV(<< <<"t", "e", "x", "t">> >>)>>, <<>>), TRUE, <<>>),
    Choice(Delta(<<List(<<DictItem(<<StrVal(<<"p">>)>>, <<>>),
                          DictItem(<<NoneVal>>, <<>>)>>)>>,
                 <<>>), TRUE, <<>>),
    Choice(Delta(<<Str(<<"a">>)>>, <<>>), TRUE, <<9>>),
    Choice(Delta(<<Str(<<" ">>)>>, <<>>), TRUE, <<>>),
    Choice(Delta(<<Str(<<>>)>>, <<Str(<<"o">>)>>), TRUE, <<>>)
>>

(* ---------------------- the body of the loop -------------------------- *)
\* bool(v)
Truthy(v) ==
    CASE v.t = "none" -> FALSE
      [] v.t = "str" -> v.s # <<>>
      [] v.t = "int" -> v.n # 0
      [] OTHER -> v.items # <<>>

\* hasattr(delta, name) and the attribute is truthy
HasTruthy(attr) == attr # <<>> /\ Truthy(attr[1])

\* what `for c in v` yields; an int is not iterable
Iterable(v) == v.t # "int"
IterItems(v) ==
    IF v.t = "str" THEN [i \in 1..Len(v.s) |-> StrItem(<<v.s[i]>>)] ELSE v.items

\* a faulty variant: c.get("data", c.get("text", ""))
ItemValueDataFirst(c) == IF c.data # <<>> THEN c.data[1] ELSE c.text[1]

\* c.get("text", c.get("data", "")) for a dict holding one of the keys
ItemValue(c) == IF c.text # <<>> THEN c.text[1] ELSE c.data[1]

\* lines 288-292: the items in order; `text += None` raises TypeError and
\* leaves the text appended so far
RECURSIVE AppendItems(_, _)
AppendItems(text, items) ==
    IF items = <<>> THEN [text |-> text, raised |-> FALSE]
    ELSE LET c == Head(items) IN
         IF c.k = "dict" /\ (c.text # <<>> \/ c.data # <<>>)
         THEN IF ItemValue(c).isStr
              THEN AppendItems(text \o ItemValue(c).s, Tail(items))
              ELSE [text |-> text, raised |-> TRUE]
         ELSE IF c.k = "str"
         THEN AppendItems(text \o c.s, Tail(items))
         ELSE AppendItems(text, Tail(items))

\* lines 287-296 for one delta
ExtractText(delta, text) ==
    IF delta.isNone THEN [text |-> text, raised |-> FALSE]
    ELSE IF HasTruthy(delta.content)
    THEN IF Iterable(delta.content[1])
         THEN AppendItems(text, IterItems(delta.content[1]))
         ELSE [text |-> text, raised |-> TRUE]
    ELSE IF HasTruthy(delta.output_text)
    THEN IF delta.output_text[1].t = "str"
         THEN [text |-> text \o delta.output_text[1].s, raised |-> FALSE]
         ELSE [text |-> text, raised |-> TRUE]
    ELSE IF delta.content # <<>> /\ delta.content[1].t = "str"
    THEN [text |-> text \o delta.content[1].s, raised |-> FALSE]
    ELSE [text |-> text, raised |-> FALSE]

\* a faulty variant: the usage attribute of any chunk is captured
CaptureUsageAny(chunk, usage) == IF chunk.hasUsage THEN chunk.usage ELSE usage

\* lines 279-282: only a chunk without choices sets usage_info
CaptureUsage(chunk, usage) ==
    IF Len(chunk.choices) = 0 /\ chunk.hasUsage THEN chunk.usage ELSE usage

\* lines 279-296 for one chunk
ProcessChunk(chunk, text, usage) ==
    IF Len(chunk.choices) = 0
    THEN [text |-> text, usage |-> CaptureUsage(chunk, usage), raised |-> FALSE]
    ELSE LET r == ExtractText(chunk.choices[1].delta, text)
         IN  [text |-> r.text, usage |-> CaptureUsage(chunk, usage),
              raised |-> r.raised]

(* ------------------------------ state -------------------------------- *)
VARIABLES
    pc,            \* position in evaluate_audio
    audio_url,     \* the argument of the call
    file_format,   \* the local of _build_messages: <<>> unbound, <<ext>> bound
    messages,      \* <<>> before line 261, then <<[data, format]>> of the
                   \* input_audio item; format <<>> would be a missing tag
    requests,      \* calls of client.chat.completions.create in this call
    consumed,      \* indices of the chunks the loop has taken, in order
    response_text, \* the local accumulator
    usage_info,    \* the local usage record: <<>> is None
    before,        \* response_text and usage_info before the last chunk
    exc,           \* the exception caught at line 306: <<>> none
    atFail,        \* <<requests, Len(consumed)>> when the handler was entered
    result,        \* the value returned to the caller
    calls,         \* evaluate_audio calls made on this evaluator
    first,         \* the first call's stream and result, kept for a rerun
    callers,       \* two overlapping evaluate_audio calls on one evaluator
    frames,        \* the locals response_text and usage_info of those calls
    mainv          \* the state of the script main.py

vars == <<pc, audio_url, file_format, messages, requests, consumed,
          response_text, usage_info, before, exc, atFail, result, calls, first,
          callers, frames, mainv>>

\* the state of one sequential evaluate_audio call
callVars == <<pc, audio_url, file_format, messages, requests, consumed,
              response_text, usage_info, before, exc, atFail, result, calls,
              first>>
concVars == <<callers, frames>>

(* -------------------- values set by single lines ---------------------- *)
\* a faulty variant: the accumulator of the previous aggregation is kept
NewResponseTextKept(old) == old

\* line 272: response_text = ""
NewResponseText(old) == <<>>

\* a faulty variant: the value is returned untrimmed
ReturnValueRaw(text) == text

\* line 304: return response_text.strip()
ReturnValue(text) == Strip(text)

\* a faulty variant: the handler returns what had been accumulated
ExceptValuePartial(text) == Strip(text)

\* line 308: return ""
ExceptValue(text) == <<>>

(* --------------------------- the endpoint ----------------------------- *)
\* In a first call the endpoint is free.  In a rerun it repeats the first
\* call's stream: the same chunks in the same order and the same ending.
Replaying == calls = 2
MayAccept == ~Replaying \/ first.ending # "create"
MayReject == ~Replaying \/ first.ending = "create"
MayDeliver(i) ==
    \/ ~Replaying
    \/ /\ Len(consumed) < Len(first.consumed)
       /\ i = first.consumed[Len(consumed) + 1]
MayBreak ==
    \/ ~Replaying
    \/ Len(consumed) = Len(first.consumed) /\ first.ending = "iter"
MayEnd ==
    \/ ~Replaying
    \/ Len(consumed) = Len(first.consumed) /\ first.ending = "end"

(* ------------------- overlapping calls, main.py ----------------------- *)
\* two calls in flight on the evaluator of app.py line 19
Callers == {1, 2}
IdleCaller ==
    [pc |-> "idle", url |-> <<>>, consumed |-> <<>>, exc |-> <<>>,
     result |-> <<>>, mixed |-> FALSE]

\* the three recordings of main.py lines 30-32, in the order evaluated
Parts == <<"part1", "part2", "part3">>
PartSet == {Parts[k] : k \in DOMAIN Parts}

\* their locators end in ".mp3"; in the alphabet of the model
PartLocator == <<"a", ".", "a", "7">>

\* a value of the dict results: not set, None, or a str
Unset == [v |-> "unset", s |-> <<>>]
PyNone == [v |-> "none", s |-> <<>>]
PyStr(s) == [v |-> "str", s |-> s]

\* the dict evaluate_all returns: a key is absent (<<>>) or holds <<value>>
NoResult == [error |-> <<>>, overall_metrics |-> <<>>, detailed_results |-> <<>>]

\* the script before line 41
MainStart ==
    [pc |-> "parts",
     i |-> 1,                              \* the part evaluated next
     results |-> [k \in PartSet |-> Unset],
     errors |-> {},                        \* the keys of the dict errors
     swallowed |-> {},                     \* parts whose evaluate_audio call
                                           \* ended in its handler
     feedback_parts |-> <<>>,              \* the parts joined at line 113
     combined |-> FALSE,                   \* lines 104-113 have run
     secondary |-> FALSE,                  \* evaluate_all has been called
     inner |-> <<>>,                       \* what was raised inside evaluate_all
     escaped |-> FALSE,                    \* evaluate_all raised to main.py
     res |-> NoResult,
     saved |-> <<>>,                       \* evaluation_results.json
     status |-> <<>>]                      \* the exit status of the process

(* ------------------------------ actions ------------------------------- *)
Init ==
    /\ pc = "idle"
    /\ audio_url = <<>>
    /\ file_format = <<>>
    /\ messages = <<>>
    /\ requests = 0
    /\ consumed = <<>>
    /\ response_text = <<>>
    /\ usage_info = <<>>
    /\ before = [text |-> <<>>, usage |-> <<>>]
    /\ exc = <<>>
    /\ atFail = <<>>
    /\ result = <<>>
    /\ calls = 0
    /\ first = [consumed |-> <<>>, ending |-> "none", result |-> <<>>]
    /\ callers = [c \in Callers |-> IdleCaller]
    /\ frames = [c \in Callers |-> [response_text |-> <<>>, usage_info |-> <<>>]]
    /\ mainv = MainStart

\* evaluate_audio(audio_url) is called on the evaluator
Call(urls) ==
    /\ pc = "idle"
    /\ \E u \in urls : audio_url' = u
    /\ pc' = "build"
    /\ calls' = 1
    /\ UNCHANGED <<concVars, mainv>>
    /\ UNCHANGED <<file_format, messages, requests, consumed, response_text,
                   usage_info, before, exc, atFail, result, first>>

\* line 261, outside the try: _build_messages.  With no match file_format
\* stays unbound and line 245 raises UnboundLocalError out of evaluate_audio.
BuildMessages ==
    /\ pc = "build"
    /\ file_format' = Search(audio_url)
    /\ IF file_format' # <<>>
       THEN /\ messages' = <<[data |-> audio_url, format |-> file_format']>>
            /\ pc' = "create"
       ELSE /\ messages' = messages
            /\ pc' = "raised"
    /\ UNCHANGED <<concVars, mainv>>
    /\ UNCHANGED <<audio_url, requests, consumed, response_text, usage_info,
                   before, exc, atFail, result, calls, first>>

\* lines 264-273: the request is issued and the stream is established
Create ==
    /\ pc = "create"
    /\ MayAccept
    /\ requests' = requests + 1
    /\ response_text' = NewResponseText(response_text)
    /\ usage_info' = <<>>
    /\ pc' = "loop"
    /\ UNCHANGED <<concVars, mainv>>
    /\ UNCHANGED <<audio_url, file_format, messages, consumed, before, exc,
                   atFail, result, calls, first>>

\* lines 264-270: the request is issued and create raises
CreateRaises ==
    /\ pc = "create"
    /\ MayReject
    /\ requests' = requests + 1
    /\ exc' = <<"create">>
    /\ atFail' = <<requests', Len(consumed)>>
    /\ pc' = "except"
    /\ UNCHANGED <<concVars, mainv>>
    /\ UNCHANGED <<audio_url, file_format, messages, consumed, response_text,
                   usage_info, before, result, calls, first>>

\* lines 278-296: the loop takes chunk i of Fragments
ConsumeChunk(i) ==
    /\ pc = "loop"
    /\ Len(consumed) < MaxFrags
    /\ MayDeliver(i)
    /\ LET r == ProcessChunk(Fragments[i], response_text, usage_info) IN
       /\ before' = [text |-> response_text, usage |-> usage_info]
       /\ consumed' = Append(consumed, i)
       /\ response_text' = r.text
       /\ usage_info' = r.usage
       /\ IF r.raised
          THEN /\ exc' = <<"chunk">>
               /\ atFail' = <<requests, Len(consumed')>>
               /\ pc' = "except"
          ELSE /\ UNCHANGED <<exc, atFail>>
               /\ pc' = "loop"
    /\ UNCHANGED <<concVars, mainv>>
    /\ UNCHANGED <<audio_url, file_format, messages, requests, result, calls,
                   first>>

Consume == \E i \in DOMAIN Fragments : ConsumeChunk(i)

\* line 278: the iterator raises instead of yielding a chunk
IterRaises ==
    /\ pc = "loop"
    /\ MayBreak
    /\ exc' = <<"iter">>
    /\ atFail' = <<requests, Len(consumed)>>
    /\ pc' = "except"
    /\ UNCHANGED <<concVars, mainv>>
    /\ UNCHANGED <<audio_url, file_format, messages, requests, consumed,
                   response_text, usage_info, before, result, calls, first>>

\* the record of a call that has returned, kept of the first call only
Record(ending, value) ==
    IF calls = 1
    THEN [consumed |-> consumed, ending |-> ending, result |-> value]
    ELSE first

\* lines 300-304: the stream is exhausted
StreamEnd ==
    /\ pc = "loop"
    /\ MayEnd
    /\ result' = <<ReturnValue(response_text)>>
    /\ first' = Record("end", result')
    /\ pc' = "returned"
    /\ UNCHANGED <<concVars, mainv>>
    /\ UNCHANGED <<audio_url, file_format, messages, requests, consumed,
                   response_text, usage_info, before, exc, atFail, calls>>

\* a faulty variant: the handler issues the request again
ExceptRetry ==
    /\ pc = "except"
    /\ pc' = "create"
    /\ UNCHANGED <<concVars, mainv>>
    /\ UNCHANGED <<audio_url, file_format, messages, requests, consumed,
                   response_text, usage_info, before, exc, atFail, result,
                   calls, first>>

\* lines 306-308: the handler of the try
Except ==
    /\ pc = "except"
    /\ result' = <<ExceptValue(response_text)>>
    /\ first' = Record(exc[1], result')
    /\ pc' = "returned"
    /\ UNCHANGED <<concVars, mainv>>
    /\ UNCHANGED <<audio_url, file_format, messages, requests, consumed,
                   response_text, usage_info, before, exc, atFail, calls>>

\* evaluate_audio is called again on the same evaluator with the same
\* locator, and the endpoint repeats the stream of the first call
Rerun ==
    /\ pc = "returned"
    /\ calls = 1
    /\ Len(first.consumed) <= MaxRerunFrags
    /\ calls' = 2
    /\ pc' = "build"
    /\ requests' = 0
    /\ consumed' = <<>>
    /\ exc' = <<>>
    /\ atFail' = <<>>
    /\ result' = <<>>
    /\ UNCHANGED <<concVars, mainv>>
    /\ UNCHANGED <<audio_url, file_format, messages, response_text, usage_info,
                   before, first>>

(* -------------------------- specifications ---------------------------- *)
\* one evaluate_audio call on a fixed locator against a free endpoint
Next ==
    \/ Call(Locators)
    \/ BuildMessages
    \/ Create
    \/ CreateRaises
    \/ Consume
    \/ IterRaises
    \/ StreamEnd
    \/ Except

Spec == Init /\ [][Next]_vars

\* _build_messages on every locator up to MaxUrlLen; the endpoint delivers
\* no chunk
NextBuild ==
    \/ Call(AllLocators)
    \/ BuildMessages
    \/ Create
    \/ CreateRaises
    \/ IterRaises
    \/ StreamEnd
    \/ Except

SpecBuild == Init /\ [][NextBuild]_vars

\* a call followed by a second call over the identical stream
NextRerun == Next \/ Rerun

SpecRerun == Init /\ [][NextRerun]_vars

(* ======================= the claims, C1 to C10 ======================== *)
\* the chunk the loop took last, its delta and its content
LastChunk == Fragments[consumed[Len(consumed)]]
HasChoice(chunk) == Len(chunk.choices) > 0
DeltaOf(chunk) == chunk.choices[1].delta
IsListContent(d) == ~d.isNone /\ d.content # <<>> /\ d.content[1].t = "list"
IsStrContent(d) == ~d.isNone /\ d.content # <<>> /\ d.content[1].t = "str"
HasOutputText(d) ==
    ~d.isNone /\ d.output_text # <<>> /\ d.output_text[1].t = "str"
    /\ d.output_text[1].s # <<>>

\* a locator ends in '.' followed by one or more alphanumerics up to its end
EndsInDotExt(s) ==
    \E i \in 1..Len(s) :
        /\ s[i] = "."
        /\ i < Len(s)
        /\ \A j \in (i + 1)..Len(s) : s[j] \in AlnumClass

\* the text after the last '.' of a locator
ExtOf(s) ==
    LET dots == {i \in 1..Len(s) : s[i] = "."}
        i == CHOOSE k \in dots : \A m \in dots : k >= m
    IN  SubSeq(s, i + 1, Len(s))

\* C1: for every locator without a trailing extension, building the request
\* does not raise out of evaluate_audio and the request built carries no
\* format tag.
C1_NoExtensionBuilds ==
    (pc \notin {"idle", "build"} /\ ~EndsInDotExt(audio_url)) =>
        /\ pc # "raised"
        /\ messages # <<>>
        /\ messages[1].format = <<>>

\* C2: after an exception while establishing or iterating the stream, no
\* exception reaches the caller and the call returns the empty string,
\* whatever had been accumulated.
C2_FailureReturnsEmpty ==
    exc # <<>> =>
        /\ pc \in {"except", "returned"}
        /\ pc = "returned" => result = << <<>> >>

C2_Witness ==
    /\ pc = "returned"
    /\ exc = <<"iter">>
    /\ Strip(response_text) # <<>>
    /\ result = << <<>> >>

\* a chunk whose delta carries a plain string and no output_text
PlainString(i) ==
    /\ HasChoice(Fragments[i])
    /\ IsStrContent(DeltaOf(Fragments[i]))
    /\ DeltaOf(Fragments[i]).output_text = <<>>

RECURSIVE ConcatStrings(_)
ConcatStrings(idx) ==
    IF idx = <<>> THEN <<>>
    ELSE DeltaOf(Fragments[Head(idx)]).content[1].s \o ConcatStrings(Tail(idx))

\* C3: a stream of plain-string deltas that ends returns the strings
\* concatenated in arrival order and trimmed once; the empty stream returns
\* the empty string.
C3_PlainStringsConcatenate ==
    (/\ pc = "returned"
     /\ exc = <<>>
     /\ \A k \in 1..Len(consumed) : PlainString(consumed[k])) =>
        result = <<Strip(ConcatStrings(consumed))>>

C3_Witness ==
    /\ pc = "returned"
    /\ consumed = <<20, 7, 5>>
    /\ response_text = <<" ", "c", " ", "a">>
    /\ result = << <<"c", " ", "a">> >>

\* what the claim says one list item contributes
ClaimItem(c) ==
    IF c.k = "dict" /\ c.text # <<>> THEN c.text[1].s
    ELSE IF c.k = "dict" /\ c.data # <<>> THEN c.data[1].s
    ELSE IF c.k = "str" THEN c.s
    ELSE <<>>

RECURSIVE ClaimList(_)
ClaimList(items) ==
    IF items = <<>> THEN <<>>
    ELSE ClaimItem(Head(items)) \o ClaimList(Tail(items))

\* every text or data value of the items is a string
StringValued(items) ==
    \A k \in 1..Len(items) :
        /\ items[k].text # <<>> => items[k].text[1].isStr
        /\ items[k].data # <<>> => items[k].data[1].isStr

\* C4: a delta that is a list of items with string values appends, in list
\* order, text (also when data is present), else data, a plain string itself,
\* and nothing for any other item.
C4_ListItemsContribute ==
    (/\ consumed # <<>>
     /\ HasChoice(LastChunk)
     /\ IsListContent(DeltaOf(LastChunk))
     /\ DeltaOf(LastChunk).content[1].items # <<>>
     /\ StringValued(DeltaOf(LastChunk).content[1].items)) =>
        /\ response_text =
               before.text \o ClaimList(DeltaOf(LastChunk).content[1].items)
        /\ exc # <<"chunk">>

C4_Witness ==
    /\ consumed = <<5, 9>>
    /\ response_text = <<"a", "h", "e", "l", "l", "o">>
    /\ pc = "loop"

\* C5: for every locator ending in .<ext> the request is built, its format
\* tag is <ext> with its letter case unchanged, and its data is the locator.
C5_FormatTagIsExtension ==
    (pc \notin {"idle", "build"} /\ EndsInDotExt(audio_url)) =>
        /\ pc # "raised"
        /\ messages = <<[data |-> audio_url, format |-> <<ExtOf(audio_url)>>]>>

C5_Witness ==
    /\ pc = "create"
    /\ audio_url = <<".", "a", ".", "Z">>
    /\ messages[1].format = << <<"Z">> >>

\* C6: usage is captured only from a chunk without choices; such a chunk with
\* a usage record sets usage_info to it, leaves the text, does not fail;
\* a stream without such a chunk ends with no usage; the stream of the one
\* chunk {tokens: 42} ends with empty text and usage {tokens: 42}.
C6_UsageOnlyFromChoicelessChunk ==
    /\ (consumed # <<>> /\ HasChoice(LastChunk)) => usage_info = before.usage
    /\ (consumed # <<>> /\ ~HasChoice(LastChunk) /\ LastChunk.hasUsage
        /\ LastChunk.usage # <<>>) =>
           /\ usage_info = LastChunk.usage
           /\ response_text = before.text
           /\ exc # <<"chunk">>
    /\ (/\ pc = "returned"
        /\ exc = <<>>
        /\ \A k \in 1..Len(consumed) : HasChoice(Fragments[consumed[k]])) =>
           usage_info = <<>>
    /\ (pc = "returned" /\ exc = <<>> /\ consumed = <<2>>) =>
           result = << <<>> >> /\ usage_info = <<42>>

C6_Witness ==
    /\ pc = "returned"
    /\ consumed = <<5, 2, 19>>
    /\ usage_info = <<42>>
    /\ result = << <<"a", "a">> >>

\* C7: a second aggregation over the identical chunk sequence returns the
\* identical string, although the evaluator has aggregated before.
C7_RerunSameResult ==
    (pc = "returned" /\ calls = 2) => result = first.result

C7_Witness ==
    /\ pc = "returned"
    /\ calls = 2
    /\ first.consumed = <<9, 7>>
    /\ result = << <<"h", "e", "l", "l", "o", "c">> >>

\* C8: a call issues the request at most once, and from a failure to the
\* return no request is issued and no chunk is taken.
C8_NoRetry ==
    /\ requests <= 1
    /\ exc # <<>> => atFail = <<requests, Len(consumed)>>

C8_Witness ==
    /\ pc = "returned"
    /\ exc = <<"iter">>
    /\ requests = 1
    /\ Len(consumed) = 1

\* C9: when the delta is not a list of items and exposes output_text with
\* content, output_text is what is appended; the plain-string content is
\* appended only when the output_text branch does not apply.
C9_OutputTextBeforePlainString ==
    (/\ consumed # <<>>
     /\ HasChoice(LastChunk)
     /\ ~IsListContent(DeltaOf(LastChunk))
     /\ HasOutputText(DeltaOf(LastChunk))) =>
        response_text = before.text \o DeltaOf(LastChunk).output_text[1].s

\* C10: a chunk with a choice whose delta is no list of items, has no
\* output_text with content and no plain-string content is skipped: text and
\* usage stay as they were and the call does not fail.
C10_UnmatchedFragmentSkipped ==
    (/\ consumed # <<>>
     /\ HasChoice(LastChunk)
     /\ ~IsListContent(DeltaOf(LastChunk))
     /\ ~HasOutputText(DeltaOf(LastChunk))
     /\ ~IsStrContent(DeltaOf(LastChunk))) =>
        /\ response_text = before.text
        /\ usage_info = before.usage
        /\ exc # <<"chunk">>

(* =============== two overlapping calls on one evaluator =============== *)
MaxConcFrags == 2   \* longest stream of an overlapping call

\* the chunks delivered to overlapping calls: usage, "a", "c ", a list, 42
ConcFragments == {2, 5, 7, 9, 16}

\* a faulty variant: the accumulator is an attribute of the evaluator
FrameShared(c) == 1

\* lines 272-273: response_text and usage_info are locals of the call
Frame(c) == c

Other(c) == CHOOSE d \in Callers : d # c

\* line 261 of call c
ConcBuild(c) ==
    /\ callers[c].pc = "idle"
    /\ \E u \in Locators :
          callers' = [callers EXCEPT ![c].url = u,
                         ![c].pc = IF Search(u) # <<>> THEN "create" ELSE "raised"]
    /\ UNCHANGED <<callVars, frames, mainv>>

\* lines 264-273 of call c
ConcCreate(c) ==
    /\ callers[c].pc = "create"
    /\ callers' = [callers EXCEPT ![c].pc = "loop"]
    /\ frames' = [frames EXCEPT ![Frame(c)] =
                     [response_text |-> NewResponseText(@.response_text),
                      usage_info |-> <<>>]]
    /\ UNCHANGED <<callVars, mainv>>

\* lines 264-270 of call c: create raises
ConcCreateRaises(c) ==
    /\ callers[c].pc = "create"
    /\ callers' = [callers EXCEPT ![c].pc = "except", ![c].exc = <<"create">>]
    /\ UNCHANGED <<callVars, frames, mainv>>

\* lines 278-296 of call c for chunk i
ConcConsume(c) ==
    /\ callers[c].pc = "loop"
    /\ Len(callers[c].consumed) < MaxConcFrags
    /\ \E i \in ConcFragments :
         LET f == frames[Frame(c)]
             r == ProcessChunk(Fragments[i], f.response_text, f.usage_info)
             o == callers[Other(c)]
         IN  /\ frames' = [frames EXCEPT ![Frame(c)] =
                              [response_text |-> r.text, usage_info |-> r.usage]]
             /\ callers' = [callers EXCEPT
                   ![c].consumed = Append(@, i),
                   ![c].mixed = @ \/ (o.pc = "loop" /\ o.consumed # <<>>),
                   ![c].pc = IF r.raised THEN "except" ELSE "loop",
                   ![c].exc = IF r.raised THEN <<"chunk">> ELSE @]
    /\ UNCHANGED <<callVars, mainv>>

\* line 278 of call c: the iterator raises
ConcIterRaises(c) ==
    /\ callers[c].pc = "loop"
    /\ callers' = [callers EXCEPT ![c].pc = "except", ![c].exc = <<"iter">>]
    /\ UNCHANGED <<callVars, frames, mainv>>

\* lines 300-304 of call c
ConcStreamEnd(c) ==
    /\ callers[c].pc = "loop"
    /\ callers' = [callers EXCEPT
          ![c].pc = "returned",
          ![c].result = <<ReturnValue(frames[Frame(c)].response_text)>>]
    /\ UNCHANGED <<callVars, frames, mainv>>

\* lines 306-308 of call c
ConcExcept(c) ==
    /\ callers[c].pc = "except"
    /\ callers' = [callers EXCEPT
          ![c].pc = "returned",
          ![c].result = <<ExceptValue(frames[Frame(c)].response_text)>>]
    /\ UNCHANGED <<callVars, frames, mainv>>

NextConc ==
    \E c \in Callers :
        \/ ConcBuild(c)
        \/ ConcCreate(c)
        \/ ConcCreateRaises(c)
        \/ ConcConsume(c)
        \/ ConcIterRaises(c)
        \/ ConcStreamEnd(c)
        \/ ConcExcept(c)

SpecConc == Init /\ [][NextConc]_vars

\* the locals after a call alone has taken the chunks idx in order
RECURSIVE AloneLocals(_, _, _)
AloneLocals(idx, text, usage) ==
    IF idx = <<>> THEN [text |-> text, usage |-> usage]
    ELSE LET r == ProcessChunk(Fragments[Head(idx)], text, usage)
         IN  IF r.raised THEN [text |-> r.text, usage |-> r.usage]
             ELSE AloneLocals(Tail(idx), r.text, r.usage)

\* what a call alone returns over that stream with that ending
AloneResult(idx, e) ==
    IF e = <<>> THEN Strip(AloneLocals(idx, <<>>, <<>>).text) ELSE <<>>

\* C11: of two calls on one evaluator whose steps interleave in any order,
\* each returns what it returns alone on its own stream and ends with the
\* usage record of its own stream, also when the other call fails.
C11_CallsDoNotInterfere ==
    \A c \in Callers :
        callers[c].pc = "returned" =>
            /\ callers[c].result =
                   <<AloneResult(callers[c].consumed, callers[c].exc)>>
            /\ callers[c].exc # <<"create">> =>
                   frames[c].usage_info =
                       AloneLocals(callers[c].consumed, <<>>, <<>>).usage

C11_Witness ==
    /\ callers[1].pc = "returned"
    /\ callers[2].pc = "returned"
    /\ callers[1].mixed
    /\ callers[2].mixed
    /\ callers[1].consumed = <<5, 16>>
    /\ callers[1].result = << <<>> >>
    /\ callers[2].consumed = <<9, 7>>
    /\ callers[2].result = << <<"h", "e", "l", "l", "o", "c">> >>

(* ============================== main.py =============================== *)
\* texts an evaluation accumulates: feedback, or whitespace only
PartTexts == {<<"f">>, <<" ">>}

\* why the scoring library or the handling of its result raises
Messages == {"rate limit", "no _repr_dict"}

\* a raw metric of the library: a number, NaN, or something else
RawKinds == {"number", "nan", "other"}
Metrics == {"faithfulness", "answer_relevancy"}

\* bool(v) of a value of results
ResultTruthy(v) == v.v = "str" /\ v.s # <<>>

\* line 87: v is not None
IsSuccessful(v) == v.v # "none"

\* lines 45-54 (60-69, 75-84): one part.  evaluate_audio returns the
\* trimmed text, or "" from its handler; it raises only for a locator
\* without extension.  save_txt may raise OSError.
MainEvaluatePart ==
    /\ mainv.pc = "parts"
    /\ mainv.i <= Len(Parts)
    /\ \E ok \in BOOLEAN, t \in PartTexts, saveOk \in BOOLEAN :
         LET k == Parts[mainv.i]
             raises == Search(PartLocator) = <<>>
             p == IF ok THEN ReturnValue(t) ELSE ExceptValue(t)
             caught == raises \/ ~saveOk
         IN  mainv' = [mainv EXCEPT
                 !.i = @ + 1,
                 !.results[k] = IF caught THEN PyNone ELSE PyStr(p),
                 !.errors = IF caught THEN @ \cup {k} ELSE @,
                 !.swallowed = IF ~raises /\ ~ok THEN @ \cup {k} ELSE @,
                 !.pc = IF mainv.i = Len(Parts) THEN "check" ELSE "parts"]
    /\ UNCHANGED <<callVars, concVars>>

\* lines 86-95
MainCheck ==
    /\ mainv.pc = "check"
    /\ LET successful_parts ==
               {k \in PartSet : IsSuccessful(mainv.results[k])}
       IN  IF successful_parts = {}
           THEN mainv' = [mainv EXCEPT !.pc = "exited", !.status = <<1>>]
           ELSE mainv' = [mainv EXCEPT !.pc = "combine"]
    /\ UNCHANGED <<callVars, concVars>>

\* lines 104-116: the truthy results, in order; save_txt is outside any try
MainCombine ==
    /\ mainv.pc = "combine"
    /\ \E saveOk \in BOOLEAN :
         mainv' = [mainv EXCEPT
             !.feedback_parts =
                 SelectSeq(Parts, LAMBDA k : ResultTruthy(mainv.results[k])),
             !.combined = TRUE,
             !.pc = IF saveOk THEN "human" ELSE "crashed",
             !.status = IF saveOk THEN @ ELSE <<1>>]
    /\ UNCHANGED <<callVars, concVars>>

\* lines 122-128: a transcription is a dict, which save_txt cannot write
\* (TypeError, not caught); FileNotFoundError and OSError are caught; any
\* other exception of whisper is not
MainHuman ==
    /\ mainv.pc = "human"
    /\ \E how \in {"transcribed", "oserror", "other"} :
         mainv' = [mainv EXCEPT
             !.pc = IF how = "oserror" THEN "ragas" ELSE "crashed",
             !.status = IF how = "oserror" THEN @ ELSE <<1>>]
    /\ UNCHANGED <<callVars, concVars>>

\* lines 136-137: the constructor raises without OPENAI_API_KEY
MainRagasInit ==
    /\ mainv.pc = "ragas"
    /\ \E ok \in BOOLEAN :
         mainv' = [mainv EXCEPT !.pc = IF ok THEN "evaluate" ELSE "handler"]
    /\ UNCHANGED <<callVars, concVars>>

\* evaluate.py lines 71-74: a number that is not NaN becomes a float
Clean(raw) ==
    [m \in DOMAIN raw |-> IF raw[m] = "number" THEN "float" ELSE "None"]

\* a faulty variant: a handler for one kind of failure only
CaughtNarrow(msg) == msg = "rate limit"

\* evaluate.py line 79: `except Exception` catches whatever is raised
Caught(msg) == TRUE

\* evaluate.py lines 79-80
EvaluateAllFailure(msg) ==
    [error |-> <<msg>>, overall_metrics |-> <<>>, detailed_results |-> <<>>]

\* evaluate.py lines 75-78
EvaluateAllSuccess(raw) ==
    [error |-> <<>>, overall_metrics |-> <<Clean(raw)>>,
     detailed_results |-> <<"rows">>]

\* main.py line 138, evaluate.py lines 62-80: everything is inside the try;
\* what its handler did not catch would reach the handler of main.py
MainEvaluateAll ==
    /\ mainv.pc = "evaluate"
    /\ \/ \E msg \in Messages :
            IF Caught(msg)
            THEN mainv' = [mainv EXCEPT !.secondary = TRUE, !.inner = <<msg>>,
                              !.res = EvaluateAllFailure(msg), !.pc = "save"]
            ELSE mainv' = [mainv EXCEPT !.secondary = TRUE, !.inner = <<msg>>,
                              !.escaped = TRUE, !.pc = "handler"]
       \/ \E raw \in [Metrics -> RawKinds] :
            mainv' = [mainv EXCEPT !.secondary = TRUE,
                         !.res = EvaluateAllSuccess(raw), !.pc = "save"]
    /\ UNCHANGED <<callVars, concVars>>

\* main.py line 141, evaluate.py lines 83-85: open or json.dump may raise
MainSaveResults ==
    /\ mainv.pc = "save"
    /\ \E ok \in BOOLEAN :
         mainv' = [mainv EXCEPT
             !.saved = IF ok THEN <<mainv.res>> ELSE @,
             !.pc = IF ok THEN "report" ELSE "handler"]
    /\ UNCHANGED <<callVars, concVars>>

\* lines 143-156
MainReport ==
    /\ mainv.pc = "report"
    /\ mainv' = [mainv EXCEPT !.pc = "summary"]
    /\ UNCHANGED <<callVars, concVars>>

\* lines 158-174: save_txt of the error report may raise
MainHandler ==
    /\ mainv.pc = "handler"
    /\ \E saveOk \in BOOLEAN :
         mainv' = [mainv EXCEPT
             !.pc = IF saveOk THEN "summary" ELSE "crashed",
             !.status = IF saveOk THEN @ ELSE <<1>>]
    /\ UNCHANGED <<callVars, concVars>>

\* lines 176-185
MainSummary ==
    /\ mainv.pc = "summary"
    /\ mainv' = [mainv EXCEPT !.pc = "exited", !.status = <<0>>]
    /\ UNCHANGED <<callVars, concVars>>

NextMain ==
    \/ MainEvaluatePart
    \/ MainCheck
    \/ MainCombine
    \/ MainHuman
    \/ MainRagasInit
    \/ MainEvaluateAll
    \/ MainSaveResults
    \/ MainReport
    \/ MainHandler
    \/ MainSummary

SpecMain == Init /\ [][NextMain]_vars

\* the evaluation of part k succeeded: evaluate_audio did not end in its
\* handler and nothing was raised in the try of main.py
PartSucceeded(k) ==
    /\ mainv.results[k].v # "unset"
    /\ k \notin mainv.swallowed
    /\ k \notin mainv.errors

\* C12: main.py combines feedback and runs the secondary evaluation only if
\* a part evaluation succeeded, from the successful parts only; when all
\* three failed it exits with status 1 without combining or evaluating.
C12_ContinuesOnlyAfterASuccess ==
    /\ (mainv.combined \/ mainv.secondary) =>
           \E k \in PartSet : PartSucceeded(k)
    /\ \A n \in DOMAIN mainv.feedback_parts :
           PartSucceeded(mainv.feedback_parts[n])
    /\ (/\ mainv.pc \notin {"parts", "check"}
        /\ \A k \in PartSet : ~PartSucceeded(k)) =>
           /\ mainv.pc = "exited"
           /\ mainv.status = <<1>>
           /\ ~mainv.combined
           /\ ~mainv.secondary

\* C13: evaluate_all never raises to main.py: a failure inside it gives a
\* result with the message under `error` and no `overall_metrics`, a success
\* gives `overall_metrics` and no `error`, and line 141 writes either result.
C13_SecondaryFailureIsAResult ==
    mainv.secondary =>
        /\ ~mainv.escaped
        /\ mainv.inner # <<>> =>
               /\ mainv.res.error = mainv.inner
               /\ mainv.res.overall_metrics = <<>>
        /\ mainv.inner = <<>> =>
               /\ mainv.res.error = <<>>
               /\ mainv.res.overall_metrics # <<>>
        /\ mainv.pc = "report" => mainv.saved = <<mainv.res>>

C13_Witness ==
    /\ mainv.pc = "report"
    /\ mainv.inner = <<"no _repr_dict">>
    /\ mainv.res.error = <<"no _repr_dict">>
    /\ mainv.res.overall_metrics = <<>>
    /\ mainv.saved = <<mainv.res>>
====
